---- MODULE Spec2Model ----
(***************************************************************************)
(* Model of class Storage (src/storage.py): a day-indexed volume calendar  *)
(* built by process(), shifted by inject()/withdraw(), with accumulated    *)
(* costs, an optional price-driven balance and the reporting methods.      *)
(*                                                                         *)
(* Dates are day numbers; volumes, unit costs and prices are integers;     *)
(* cost_per_day_per_unit and the reported averages are exact fractions     *)
(* <<numerator, denominator>> (denominator 0 stands for the float results  *)
(* nan / inf of a division by zero).                                       *)
(***************************************************************************)
EXTENDS Integers, Sequences, FiniteSets, TLC

VARIABLES
    max_vol, rate, inj_cost, wit_cost, cost_per_day_per_unit,  \* configuration
    predict, price_func,                                       \* prediction mode
    cost_inj, cost_wit, balance,                               \* accumulators
    processed, first_operation, last_operation, calendar,      \* set by process
    pc, df, row,               \* process: where it is, its sorted frame, its next row
    call, err, report,         \* the call last made, how it ended, what it printed
    sum_inj, sum_wit, bal0,    \* history: volumes accepted so far, balance at process entry
    cost0,                     \* history: << cost_inj, cost_wit >> at process entry
    budget                     \* calls the run may still make

vars == << max_vol, rate, inj_cost, wit_cost, cost_per_day_per_unit,
           predict, price_func, cost_inj, cost_wit, balance,
           processed, first_operation, last_operation, calendar,
           pc, df, row, call, err, report, sum_inj, sum_wit, bal0, cost0, budget >>

config == << max_vol, rate, inj_cost, wit_cost, cost_per_day_per_unit >>

-----------------------------------------------------------------------------
(* Bounds of the model *)

\* longest injection list and longest withdrawal list handed to process
MaxOps == 2
\* calls made in one run; a batch counts one per operation it holds
MaxCalls == 4

-----------------------------------------------------------------------------
(* Exact fractions standing for the floats of the reports *)

RECURSIVE Gcd(_, _)
Gcd(a, b) == IF b = 0 THEN a ELSE Gcd(b, a % b)

Abs(x) == IF x < 0 THEN -x ELSE x

Sign(x) == IF x < 0 THEN -1 ELSE IF x > 0 THEN 1 ELSE 0

\* n/d in lowest terms with d > 0; d = 0 gives nan (<<0,0>>) or inf (<<+-1,0>>)
Rat(n, d) ==
    IF d = 0 THEN << Sign(n), 0 >>
    ELSE LET g == Gcd(Abs(n), Abs(d))
         IN  << Sign(d) * (n \div g), Abs(d) \div g >>

RatInt(n) == << n, 1 >>

NaN == << 0, 0 >>

RatMul(a, b) == Rat(a[1] * b[1], a[2] * b[2])

RatDiv(a, b) ==
    IF a = NaN \/ b = NaN THEN NaN
    ELSE IF b[2] = 0 THEN (IF a[2] = 0 THEN NaN ELSE RatInt(0))
    ELSE IF b[1] = 0 THEN Rat(a[1], 0)
    ELSE Rat(a[1] * b[2] * Sign(b[1]), a[2] * Abs(b[1]))

RatAdd(a, b) ==
    IF a = NaN \/ b = NaN THEN NaN
    ELSE IF a[2] = 0 /\ b[2] = 0 THEN (IF a = b THEN a ELSE NaN)
    ELSE IF a[2] = 0 THEN a
    ELSE IF b[2] = 0 THEN b
    ELSE Rat(a[1] * b[2] + b[1] * a[2], a[2] * b[2])

-----------------------------------------------------------------------------
(* Construction *)

\* Storage(max_vol=2, rate=1, inj_cost=1, wit_cost=2, cost_per_day_per_unit=0.5)
SmallConfig ==
    [max_vol |-> 2, rate |-> 1, inj_cost |-> 1, wit_cost |-> 2,
     cost_per_day_per_unit |-> << 1, 2 >>]

\* Storage(max_vol=100, rate=50, inj_cost=1, wit_cost=1, cost_per_day_per_unit=0.1)
ScenarioConfig ==
    [max_vol |-> 100, rate |-> 50, inj_cost |-> 1, wit_cost |-> 1,
     cost_per_day_per_unit |-> << 1, 10 >>]

\* the operations (date, volume) the caller passes in: for the small storage
\* two days and every positive volume up to the capacity (so also volumes above
\* the rate), for the documented storage the operations of the documented runs
Ops ==
    IF max_vol = ScenarioConfig.max_vol
    THEN { [date |-> 0, vol |-> 50], [date |-> 10, vol |-> 50],
           [date |-> 0, vol |-> 10], [date |-> 5, vol |-> 10] }
    ELSE [date : {0, 1}, vol : 1..max_vol]

\* the price functions handed to prediction_on: a constant one and a dated one
PriceFuncs == {"const2", "bydate"}

Price(f, date) == IF f = "const2" THEN 2 ELSE date + 1

NoCall == [op |-> "none", vol |-> 0, date |-> 0]

NoReport ==
    [kind |-> "none", n_days |-> 0, avg_vol |-> NaN, cost_storage |-> NaN,
     total_cost |-> NaN, avg_cost |-> NaN, gross |-> 0, net |-> NaN]

\* __init__
Construct(c) ==
    /\ max_vol = c.max_vol
    /\ rate = c.rate
    /\ inj_cost = c.inj_cost
    /\ wit_cost = c.wit_cost
    /\ cost_per_day_per_unit = c.cost_per_day_per_unit
    /\ predict = FALSE
    /\ price_func = "unset"
    /\ cost_inj = 0
    /\ cost_wit = 0
    /\ balance = 0
    /\ processed = FALSE
    /\ first_operation = 0
    /\ last_operation = 0
    /\ calendar = << >>
    /\ pc = "idle"
    /\ df = << >>
    /\ row = 1
    /\ call = NoCall
    /\ err = "none"
    /\ report = NoReport
    /\ sum_inj = 0
    /\ sum_wit = 0
    /\ bal0 = 0
    /\ cost0 = << 0, 0 >>
    /\ budget = MaxCalls

Init == Construct(SmallConfig)

InitScenario == Construct(ScenarioConfig)

-----------------------------------------------------------------------------
(* Calendar helpers *)

\* _date_to_int: days since the first operation
DateToInt(date) == date - first_operation

\* calendar.loc[calendar["t"] == t, "vol"] is non-empty
HasSlot(cal, t) == t >= 0 /\ t < Len(cal)

\* calendar.loc[calendar["t"] == t, "vol"].iloc[0]
SlotVol(cal, t) == cal[t + 1]

\* the shift applied after the operation's day only
ShiftAfter(cal, t, delta) ==
    [i \in 1..Len(cal) |-> IF i - 1 > t THEN cal[i] + delta ELSE cal[i]]

\* calendar.loc[calendar["t"] >= t, "vol"] += delta
ShiftFrom(cal, t, delta) ==
    [i \in 1..Len(cal) |-> IF i - 1 >= t THEN cal[i] + delta ELSE cal[i]]

\* inject with the capacity check off by one: a full storage is refused
InjectErrAtCapacity(cal, t, vol) ==
    IF ~HasSlot(cal, t) THEN "IndexError"
    ELSE IF SlotVol(cal, t) + vol >= max_vol THEN "CapacityExceeded"
    ELSE IF vol > rate THEN "RateExceeded"
    ELSE "none"

\* the checks of inject, in the order the code makes them
InjectErr(cal, t, vol) ==
    IF ~HasSlot(cal, t) THEN "IndexError"
    ELSE IF SlotVol(cal, t) + vol > max_vol THEN "CapacityExceeded"
    ELSE IF vol > rate THEN "RateExceeded"
    ELSE "none"

\* withdraw with the volume check off by one: emptying the storage is refused
WithdrawErrAtZero(cal, t, vol) ==
    IF ~HasSlot(cal, t) THEN "IndexError"
    ELSE IF SlotVol(cal, t) - vol <= 0 THEN "InsufficientVolume"
    ELSE IF vol > rate THEN "RateExceeded"
    ELSE "none"

\* the checks of withdraw, in the order the code makes them
WithdrawErr(cal, t, vol) ==
    IF ~HasSlot(cal, t) THEN "IndexError"
    ELSE IF SlotVol(cal, t) - vol < 0 THEN "InsufficientVolume"
    ELSE IF vol > rate THEN "RateExceeded"
    ELSE "none"

\* an injection charged at the withdrawal price
InjCostAtWitPrice(vol) == wit_cost * vol

\* self.inj_cost * vol
InjCost(vol) == inj_cost * vol

\* self.wit_cost * vol
WitCost(vol) == wit_cost * vol

\* the purchase booked whether or not prediction mode is on
BalanceAlwaysCharged(vol, date) == balance - Price(price_func, date) * vol

\* the sale booked as a cost
BalanceSaleAsCost(vol, date) ==
    IF predict THEN balance - Price(price_func, date) * vol ELSE balance

\* balance after an accepted injection
BalanceAfterInject(vol, date) ==
    IF predict THEN balance - Price(price_func, date) * vol ELSE balance

\* balance after an accepted withdrawal
BalanceAfterWithdraw(vol, date) ==
    IF predict THEN balance + Price(price_func, date) * vol ELSE balance

-----------------------------------------------------------------------------
(* inject and withdraw: what one call does to the ledger *)

\* inject shifting the calendar before it checks: a refused call leaves its mark
injectShiftsFirst(vol, date) ==
    /\ call' = [op |-> "inject", vol |-> vol, date |-> date]
    /\ report' = NoReport
    /\ IF ~processed
       THEN /\ err' = "AttributeError"
            /\ UNCHANGED << calendar, cost_inj, balance, sum_inj >>
       ELSE LET t == DateToInt(date)
                e == InjectErr(calendar, t, vol)
            IN  /\ err' = e
                /\ calendar' = ShiftFrom(calendar, t, vol)
                /\ IF e = "none"
                   THEN /\ cost_inj' = cost_inj + InjCost(vol)
                        /\ balance' = BalanceAfterInject(vol, date)
                        /\ sum_inj' = sum_inj + vol
                   ELSE UNCHANGED << cost_inj, balance, sum_inj >>
    /\ UNCHANGED << cost_wit, sum_wit >>

inject(vol, date) ==
    /\ call' = [op |-> "inject", vol |-> vol, date |-> date]
    /\ report' = NoReport
    /\ IF ~processed
       THEN /\ err' = "AttributeError"
            /\ UNCHANGED << calendar, cost_inj, balance, sum_inj >>
       ELSE LET t == DateToInt(date)
                e == InjectErr(calendar, t, vol)
            IN  /\ err' = e
                /\ IF e = "none"
                   THEN /\ calendar' = ShiftFrom(calendar, t, vol)
                        /\ cost_inj' = cost_inj + InjCost(vol)
                        /\ balance' = BalanceAfterInject(vol, date)
                        /\ sum_inj' = sum_inj + vol
                   ELSE UNCHANGED << calendar, cost_inj, balance, sum_inj >>
    /\ UNCHANGED << cost_wit, sum_wit >>

withdraw(vol, date) ==
    /\ call' = [op |-> "withdraw", vol |-> vol, date |-> date]
    /\ report' = NoReport
    /\ IF ~processed
       THEN /\ err' = "AttributeError"
            /\ UNCHANGED << calendar, cost_wit, balance, sum_wit >>
       ELSE LET t == DateToInt(date)
                e == WithdrawErr(calendar, t, vol)
            IN  /\ err' = e
                /\ IF e = "none"
                   THEN /\ calendar' = ShiftFrom(calendar, t, -vol)
                        /\ cost_wit' = cost_wit + WitCost(vol)
                        /\ balance' = BalanceAfterWithdraw(vol, date)
                        /\ sum_wit' = sum_wit + vol
                   ELSE UNCHANGED << calendar, cost_wit, balance, sum_wit >>
    /\ UNCHANGED << cost_inj, sum_inj >>

\* the frame and position of a finished process call are gone at the next call
DropFrame == df' = << >> /\ row' = 1 /\ bal0' = 0 /\ cost0' = << 0, 0 >>

\* inject called by the caller
Inject(vol, date) ==
    /\ pc = "idle"
    /\ budget > 0
    /\ budget' = budget - 1
    /\ inject(vol, date)
    /\ DropFrame
    /\ UNCHANGED << config, predict, price_func, processed, first_operation,
                    last_operation, pc >>

\* withdraw called by the caller
Withdraw(vol, date) ==
    /\ pc = "idle"
    /\ budget > 0
    /\ budget' = budget - 1
    /\ withdraw(vol, date)
    /\ DropFrame
    /\ UNCHANGED << config, predict, price_func, processed, first_operation,
                    last_operation, pc >>

-----------------------------------------------------------------------------
(* prediction_on / prediction_off *)

PredictionOn(f) ==
    /\ pc = "idle"
    /\ budget > 0
    /\ budget' = budget - 1
    /\ price_func' = f
    /\ predict' = TRUE
    /\ call' = [op |-> "prediction_on", vol |-> 0, date |-> 0]
    /\ err' = "none"
    /\ report' = NoReport
    /\ DropFrame
    /\ UNCHANGED << config, cost_inj, cost_wit, balance, processed, first_operation,
                    last_operation, calendar, pc, sum_inj, sum_wit >>

\* prediction_off that also forgets the balance booked so far
PredictionOffResetsBalance ==
    /\ pc = "idle"
    /\ budget > 0
    /\ budget' = budget - 1
    /\ predict' = FALSE
    /\ balance' = 0
    /\ call' = [op |-> "prediction_off", vol |-> 0, date |-> 0]
    /\ err' = "none"
    /\ report' = NoReport
    /\ DropFrame
    /\ UNCHANGED << config, price_func, cost_inj, cost_wit, processed,
                    first_operation, last_operation, calendar, pc, sum_inj, sum_wit >>

PredictionOff ==
    /\ pc = "idle"
    /\ budget > 0
    /\ budget' = budget - 1
    /\ predict' = FALSE
    /\ call' = [op |-> "prediction_off", vol |-> 0, date |-> 0]
    /\ err' = "none"
    /\ report' = NoReport
    /\ DropFrame
    /\ UNCHANGED << config, price_func, cost_inj, cost_wit, balance, processed,
                    first_operation, last_operation, calendar, pc, sum_inj, sum_wit >>

-----------------------------------------------------------------------------
(* process *)

\* the lists of at most n operations (date, volume) over the caller's inputs
OpLists(n) ==
    UNION { [1..k -> Ops] : k \in 0..n }

\* pd.DataFrame({"date": dates, "inj": flag, "vol": vols})
Frame(ops, flag) ==
    [i \in 1..Len(ops) |-> [date |-> ops[i].date, inj |-> flag, vol |-> ops[i].vol]]

\* an insertion that puts r before the rows of its own date: ties come out reversed
InsertRowBeforeTies(sorted, r) ==
    LET k == Cardinality({i \in 1..Len(sorted) : sorted[i].date < r.date})
    IN  SubSeq(sorted, 1, k) \o << r >> \o SubSeq(sorted, k + 1, Len(sorted))

\* one insertion of the sort: r goes after every row dated at or before it
InsertRow(sorted, r) ==
    LET k == Cardinality({i \in 1..Len(sorted) : sorted[i].date <= r.date})
    IN  SubSeq(sorted, 1, k) \o << r >> \o SubSeq(sorted, k + 1, Len(sorted))

\* df.sort_values left out: the frame stays in merged-list order
Unsorted(s) == s

\* df.sort_values(by='date') on a short frame: an insertion sort
RECURSIVE SortValues(_)
SortValues(s) ==
    IF s = << >> THEN << >>
    ELSE InsertRow(SortValues(SubSeq(s, 1, Len(s) - 1)), s[Len(s)])

\* a calendar one slot short: no slot for the day after the last operation
ZerosButOne(n) == [i \in 1..(n - 1) |-> 0]

\* np.zeros(n)
Zeros(n) == [i \in 1..n |-> 0]

\* the longest list the bound n and the calls left allow
AtMost(n, left) == IF n < left THEN n ELSE left

\* what a batch takes from the run's budget of calls
BatchCalls(inj, wit) == IF Len(inj) + Len(wit) = 0 THEN 1 ELSE Len(inj) + Len(wit)

\* process up to the loop: build the frame, the operation dates and the calendar
ProcessStart(inj, wit) ==
    /\ pc = "idle"
    /\ BatchCalls(inj, wit) <= budget
    /\ budget' = budget - BatchCalls(inj, wit)
    /\ LET d == SortValues(Frame(inj, TRUE) \o Frame(wit, FALSE))
       IN  IF d = << >>
           THEN \* df['date'].iloc[0] on an empty frame
                /\ err' = "IndexError"
                /\ call' = [op |-> "process", vol |-> 0, date |-> 0]
                /\ DropFrame
                /\ UNCHANGED << processed, first_operation, last_operation, calendar,
                                pc >>
           ELSE /\ first_operation' = d[1].date
                /\ last_operation' = d[Len(d)].date
                /\ calendar' = Zeros((d[Len(d)].date - d[1].date) + 2)
                /\ processed' = TRUE
                /\ df' = d
                /\ row' = 1
                /\ pc' = "loop"
                /\ bal0' = balance
                /\ cost0' = << cost_inj, cost_wit >>
                /\ err' = "none"
                /\ call' = [op |-> "process", vol |-> 0, date |-> 0]
    /\ report' = NoReport
    /\ UNCHANGED << config, predict, price_func, cost_inj, cost_wit, balance,
                    sum_inj, sum_wit >>

\* the loop swallowing a row's error and going on to the next row
ProcessRowGoesOn ==
    /\ pc = "loop"
    /\ row <= Len(df)
    /\ IF df[row].inj
       THEN inject(df[row].vol, df[row].date)
       ELSE withdraw(df[row].vol, df[row].date)
    /\ row' = row + 1
    /\ pc' = "loop"
    /\ UNCHANGED << config, predict, price_func, processed, first_operation,
                    last_operation, df, bal0, cost0, budget >>

\* one turn of the loop over df: the row's inject or withdraw; an error leaves process
ProcessRow ==
    /\ pc = "loop"
    /\ row <= Len(df)
    /\ IF df[row].inj
       THEN inject(df[row].vol, df[row].date)
       ELSE withdraw(df[row].vol, df[row].date)
    /\ IF err' = "none"
       THEN row' = row + 1 /\ pc' = "loop"
       ELSE row' = row /\ pc' = "idle"
    /\ UNCHANGED << config, predict, price_func, processed, first_operation,
                    last_operation, df, bal0, cost0, budget >>

\* calendar.loc[calendar["t"] == _date_to_int(last_operation) + 1, "vol"].iloc[0]
ResidualVol(cal) == SlotVol(cal, DateToInt(last_operation) + 1)

\* the final check made on the first day instead of the day after the last
UnbalancedFirstDay(cal) == SlotVol(cal, 0) # 0

\* the check after the loop
Unbalanced(cal) == ResidualVol(cal) # 0

ProcessEnd ==
    /\ pc = "loop"
    /\ row > Len(df)
    /\ pc' = "idle"
    /\ err' = IF Unbalanced(calendar) THEN "UnbalancedStorage" ELSE "none"
    /\ call' = [op |-> "process", vol |-> 0, date |-> 0]
    /\ report' = NoReport
    /\ UNCHANGED << config, predict, price_func, cost_inj, cost_wit, balance,
                    processed, first_operation, last_operation, calendar, df, row,
                    sum_inj, sum_wit, bal0, cost0, budget >>

-----------------------------------------------------------------------------
(* Reports *)

RECURSIVE SumSeq(_)
SumSeq(s) == IF s = << >> THEN 0 ELSE s[1] + SumSeq(Tail(s))

\* (calendar["vol"] != 0).sum()
NDays(cal) == Cardinality({i \in 1..Len(cal) : cal[i] # 0})

\* calendar["vol"].sum() / n_days
AvgVol(cal) == RatDiv(RatInt(SumSeq(cal)), RatInt(NDays(cal)))

\* the storage cost of one average day, not of all the days
CostStorageOneDay(cal) == RatMul(cost_per_day_per_unit, AvgVol(cal))

\* cost_overview: cost_per_day_per_unit * avg_vol * n_days
CostStorage(cal) ==
    RatMul(RatMul(cost_per_day_per_unit, AvgVol(cal)), RatInt(NDays(cal)))

\* cost_inj + cost_wit + cost_storage
TotalCost(storage) == RatAdd(RatInt(cost_inj + cost_wit), storage)

Reporting(name) ==
    /\ pc = "idle"
    /\ budget > 0
    /\ budget' = budget - 1
    /\ call' = [op |-> name, vol |-> 0, date |-> 0]
    /\ DropFrame
    /\ UNCHANGED << config, predict, price_func, cost_inj, cost_wit, balance,
                    processed, first_operation, last_operation, calendar, pc,
                    sum_inj, sum_wit >>

CostOverview ==
    /\ Reporting("cost_overview")
    /\ IF ~processed
       THEN err' = "AttributeError" /\ report' = NoReport
       ELSE /\ err' = "none"
            /\ report' =
                 [NoReport EXCEPT
                    !.kind = "cost_overview",
                    !.n_days = NDays(calendar),
                    !.avg_vol = AvgVol(calendar),
                    !.cost_storage = CostStorage(calendar),
                    !.total_cost = TotalCost(CostStorage(calendar)),
                    !.avg_cost = RatDiv(TotalCost(CostStorage(calendar)),
                                        RatInt(NDays(calendar)))]

GrossGain ==
    /\ Reporting("gross_gain")
    /\ IF ~predict
       THEN err' = "TypeError" /\ report' = NoReport
       ELSE /\ err' = "none"
            /\ report' = [NoReport EXCEPT !.kind = "gross_gain", !.gross = balance]

\* net_gain charging the storage of every day, as cost_overview does
NetCostStorageAllDays(cal) ==
    RatMul(RatMul(cost_per_day_per_unit, AvgVol(cal)), RatInt(NDays(cal)))

\* net_gain: cost_per_day_per_unit * avg_vol
NetCostStorage(cal) == RatMul(cost_per_day_per_unit, AvgVol(cal))

NetGain ==
    /\ Reporting("net_gain")
    /\ IF ~processed
       THEN err' = "AttributeError" /\ report' = NoReport
       ELSE /\ err' = "none"
            /\ report' =
                 [NoReport EXCEPT
                    !.kind = "net_gain",
                    !.n_days = NDays(calendar),
                    !.avg_vol = AvgVol(calendar),
                    !.cost_storage = NetCostStorage(calendar),
                    !.total_cost = TotalCost(NetCostStorage(calendar)),
                    !.gross = balance,
                    !.net = RatAdd(RatInt(balance),
                                   RatMul(RatInt(-1),
                                          TotalCost(NetCostStorage(calendar))))]

-----------------------------------------------------------------------------
Next ==
    \/ \E o \in Ops : Inject(o.vol, o.date)
    \/ \E o \in Ops : Withdraw(o.vol, o.date)
    \/ \E f \in PriceFuncs : PredictionOn(f)
    \/ PredictionOff
    \/ \E inj \in OpLists(AtMost(MaxOps, budget)) :
          \E wit \in OpLists(AtMost(MaxOps, budget - Len(inj))) : ProcessStart(inj, wit)
    \/ ProcessRow
    \/ ProcessEnd
    \/ CostOverview
    \/ GrossGain
    \/ NetGain

Spec == Init /\ [][Next]_vars

SpecScenario == InitScenario /\ [][Next]_vars

-----------------------------------------------------------------------------
(* Properties *)

\* the slot of a date, as the claims count it: days since the first operation
SlotOf(date) == date - first_operation

IsInject(c) == c.op = "inject"

IsWithdraw(c) == c.op = "withdraw"

\* the call just made was an inject or withdraw that reached its checks
ReachedChecks == (IsInject(call) \/ IsWithdraw(call)) /\ err \notin {"AttributeError", "IndexError"}

\* a process call has just returned or raised after its loop ran to the end
ProcessReturned == call.op = "process" /\ pc = "idle" /\ df # << >>

RECURSIVE VolumeBy(_, _, _)
\* total volume of the rows of frame d with direction flag and slot at most s
VolumeBy(d, flag, s) ==
    IF d = << >> THEN 0
    ELSE (IF d[1].inj = flag /\ SlotOf(d[1].date) <= s THEN d[1].vol ELSE 0)
         + VolumeBy(Tail(d), flag, s)

\* every slot holds what the frame injected minus what it withdrew up to that day
RunningTotal(d, cal) ==
    \A s \in 0..(Len(cal) - 1) :
        cal[s + 1] = VolumeBy(d, TRUE, s) - VolumeBy(d, FALSE, s)

\* C1: on a processed ledger every calendar slot holds a volume within
\* [0, max_vol], whatever inject and withdraw calls were made, by process or
\* directly by the caller in any date order.
C1_SlotsWithinCapacity ==
    processed => \A i \in 1..Len(calendar) : 0 <= calendar[i] /\ calendar[i] <= max_vol

\* C2: an inject or withdraw whose volume exceeds rate fails with the
\* rate-exceeded error, also when it breaks the capacity or the
\* non-negativity check as well.
C2_RateErrorComesFirst ==
    (ReachedChecks /\ call.vol > rate) => err = "RateExceeded"

\* C3: a process call whose operations all pass their checks succeeds exactly
\* when the slot one day past the last operation holds zero, which is exactly
\* when injected and withdrawn volume are equal; otherwise it fails with the
\* unbalanced-storage error, and that error comes only after the whole batch
\* has been applied.
C3_ProcessBalanced ==
    /\ ProcessReturned =>
         /\ (err = "none") <=> (calendar[SlotOf(last_operation) + 2] = 0)
         /\ (err = "none") <=>
              (VolumeBy(df, TRUE, Len(calendar)) = VolumeBy(df, FALSE, Len(calendar)))
         /\ err \in {"none", "UnbalancedStorage"}
         /\ RunningTotal(df, calendar)
    /\ err = "UnbalancedStorage" => ProcessReturned

C3_Witness ==
    /\ ProcessReturned
    /\ err = "none"
    /\ Len(df) > 2
    /\ \A i \in 1..Len(df) : df[i].vol > 0

\* C4: an inject with volume <= rate fails with the capacity-exceeded error
\* exactly when the volume in the slot of its date plus the injected volume is
\* greater than max_vol; reaching exactly max_vol is accepted.
C4_CapacityCheck ==
    [][ (IsInject(call') /\ processed /\ HasSlot(calendar, SlotOf(call'.date))
            /\ call'.vol <= rate)
        => LET before == calendar[SlotOf(call'.date) + 1]
           IN  /\ (err' = "CapacityExceeded") <=> (before + call'.vol > max_vol)
               /\ (before + call'.vol <= max_vol) =>
                    /\ err' = "none"
                    /\ calendar'[SlotOf(call'.date) + 1] = before + call'.vol ]_vars

C4_Witness ==
    /\ IsInject(call)
    /\ err = "none"
    /\ call.vol > 0
    /\ calendar[SlotOf(call.date) + 1] = max_vol

\* C5: a withdraw with volume <= rate fails with the insufficient-volume error
\* exactly when the volume in the slot of its date minus the withdrawn volume
\* is negative; reaching exactly zero is accepted.
C5_VolumeCheck ==
    [][ (IsWithdraw(call') /\ processed /\ HasSlot(calendar, SlotOf(call'.date))
            /\ call'.vol <= rate)
        => LET before == calendar[SlotOf(call'.date) + 1]
           IN  /\ (err' = "InsufficientVolume") <=> (before - call'.vol < 0)
               /\ (before - call'.vol >= 0) =>
                    /\ err' = "none"
                    /\ calendar'[SlotOf(call'.date) + 1] = before - call'.vol ]_vars

C5_Witness ==
    /\ IsWithdraw(call)
    /\ err = "none"
    /\ call.vol > 0
    /\ calendar[SlotOf(call.date) + 1] = 0

\* the documented run: inject 50 on day 0, withdraw 50 on day 10
Scenario50 ==
    << [date |-> 0, inj |-> TRUE, vol |-> 50], [date |-> 10, inj |-> FALSE, vol |-> 50] >>

\* its calendar: 50 in slots 0..9, 0 in slots 10 and 11
Calendar50 == [i \in 1..12 |-> IF i <= 10 THEN 50 ELSE 0]

\* inject 10 on day 0, withdraw 10 on day 5
Scenario10 ==
    << [date |-> 0, inj |-> TRUE, vol |-> 10], [date |-> 5, inj |-> FALSE, vol |-> 10] >>

Calendar10 == [i \in 1..7 |-> IF i <= 5 THEN 10 ELSE 0]

\* what no report, toggle or rejected call may touch
ledger == << calendar, cost_inj, cost_wit, balance, predict, price_func, processed,
             first_operation, last_operation >>

\* C6: after a successful process call every slot s holds the volume the batch
\* injected at or before day s minus the volume it withdrew at or before day s;
\* inject 50 on day 0 and withdraw 50 on day 10 gives 50 in slots 0..9 and 0 in
\* slots 10 and 11.
C6_CalendarIsRunningTotal ==
    (ProcessReturned /\ err = "none") =>
        /\ RunningTotal(df, calendar)
        /\ df = Scenario50 => calendar = Calendar50

C6_Witness == ProcessReturned /\ err = "none" /\ df = Scenario50 /\ calendar = Calendar50

\* C7: on a processed ledger with a nonzero slot, cost_overview reports n_days =
\* the number of nonzero slots, cost_storage = cost_per_day_per_unit * (sum of
\* the slots) and total_cost = cost_inj + cost_wit + cost_storage, and changes
\* no state; in the documented run it reports n_days = 10, avg_vol = 50,
\* cost_storage = 50 and total_cost = 150.
C7_CostOverview ==
    /\ [] ( (call.op = "cost_overview" /\ err = "none"
                /\ \E i \in 1..Len(calendar) : calendar[i] # 0) =>
              /\ report.n_days = Cardinality({i \in 1..Len(calendar) : calendar[i] # 0})
              /\ report.cost_storage =
                    Rat(cost_per_day_per_unit[1] * SumSeq(calendar), cost_per_day_per_unit[2])
              /\ report.total_cost =
                    Rat((cost_inj + cost_wit) * cost_per_day_per_unit[2]
                          + cost_per_day_per_unit[1] * SumSeq(calendar),
                        cost_per_day_per_unit[2])
              /\ (calendar = Calendar50 /\ cost_inj = 50 /\ cost_wit = 50) =>
                    /\ report.n_days = 10
                    /\ report.avg_vol = << 50, 1 >>
                    /\ report.cost_storage = << 50, 1 >>
                    /\ report.total_cost = << 150, 1 >> )
    /\ [][ call'.op = "cost_overview" => UNCHANGED ledger ]_vars

C7_Witness ==
    /\ call.op = "cost_overview"
    /\ err = "none"
    /\ calendar = Calendar50
    /\ cost_inj = 50
    /\ cost_wit = 50
    /\ report.total_cost = << 150, 1 >>

\* C8: cost_inj is inj_cost times the volume of all accepted injections since
\* construction and cost_wit is wit_cost times the volume of all accepted
\* withdrawals; only an accepted inject (withdraw) changes cost_inj (cost_wit),
\* by inj_cost (wit_cost) times its volume; nothing resets or lowers them, not
\* a rejected call and not a new process call.
C8_CostsAccumulate ==
    /\ [] (cost_inj = inj_cost * sum_inj /\ cost_wit = wit_cost * sum_wit)
    /\ [][ /\ cost_inj' >= cost_inj
           /\ cost_wit' >= cost_wit
           /\ IF IsInject(call') /\ err' = "none"
              THEN /\ cost_inj' = cost_inj + inj_cost * call'.vol
                   /\ sum_inj' = sum_inj + call'.vol
              ELSE cost_inj' = cost_inj /\ sum_inj' = sum_inj
           /\ IF IsWithdraw(call') /\ err' = "none"
              THEN /\ cost_wit' = cost_wit + wit_cost * call'.vol
                   /\ sum_wit' = sum_wit + call'.vol
              ELSE cost_wit' = cost_wit /\ sum_wit' = sum_wit ]_vars

\* a second batch has run: its one operation was accepted on top of earlier costs
C8_Witness ==
    /\ ProcessReturned
    /\ Len(df) = 1
    /\ df[1].inj
    /\ df[1].vol > 0
    /\ cost_inj > inj_cost * df[1].vol
    /\ cost_wit > 0

\* C9: an accepted inject changes balance by -price(date) * volume and an
\* accepted withdraw by +price(date) * volume when prediction mode is on at the
\* call; with prediction mode off no inject or withdraw changes balance; a
\* rejected call never does.
C9_BalanceFollowsPrediction ==
    [][ /\ (IsInject(call') /\ err' = "none") =>
              IF predict
              THEN balance' = balance - Price(price_func, call'.date) * call'.vol
              ELSE balance' = balance
        /\ (IsWithdraw(call') /\ err' = "none") =>
              IF predict
              THEN balance' = balance + Price(price_func, call'.date) * call'.vol
              ELSE balance' = balance
        /\ ((IsInject(call') \/ IsWithdraw(call')) /\ err' # "none") =>
              balance' = balance ]_vars

\* a sale booked with prediction on, after a purchase made with or without it
C9_Witness ==
    /\ IsWithdraw(call)
    /\ err = "none"
    /\ call.vol > 0
    /\ predict
    /\ balance > 0

\* C10: with prediction mode on and a price that is the same for every date, a
\* successful process call leaves balance where it was when the call began;
\* with price 2, inject 10 on day 0 and withdraw 10 on day 5 on a fresh ledger
\* give balance 0, and gross_gain reports the balance.
C10_ConstantPriceNetsOut ==
    /\ (ProcessReturned /\ err = "none" /\ predict /\ price_func = "const2") =>
          /\ balance = bal0
          /\ (df = Scenario10 /\ bal0 = 0) => balance = 0
    /\ (call.op = "gross_gain" /\ err = "none") => report.gross = balance

C10_Witness ==
    /\ call.op = "gross_gain"
    /\ err = "none"
    /\ price_func = "const2"
    /\ calendar = Calendar10
    /\ sum_inj = 10
    /\ sum_wit = 10
    /\ report.gross = 0

\* C11: gross_gain fails with the prediction-mode-required error exactly when
\* the prediction flag is off at the call, whatever balance was accumulated
\* before and whether or not the ledger was processed; with the flag on it
\* reports the balance; it never changes the ledger.
C11_GrossGainNeedsPrediction ==
    call.op = "gross_gain" =>
        /\ (err = "PredictionModeRequired") <=> ~predict
        /\ predict => (err = "none" /\ report.gross = balance)

\* C12: an inject or withdraw refused for rate, capacity or insufficient
\* volume leaves every calendar slot, cost_inj, cost_wit, balance and the
\* prediction flag as they were.
C12_RejectedCallChangesNothing ==
    [][ ((IsInject(call') \/ IsWithdraw(call')) /\ err' # "none")
        => UNCHANGED ledger ]_vars

\* a refused call on a ledger that already holds volume and costs
C12_Witness ==
    /\ ReachedChecks
    /\ err \in {"RateExceeded", "CapacityExceeded", "InsufficientVolume"}
    /\ cost_inj > 0
    /\ \E i \in 1..Len(calendar) : calendar[i] # 0

\* a row of the batch was refused and process raised its error
ProcessAborted ==
    /\ pc = "idle"
    /\ df # << >>
    /\ (IsInject(call) \/ IsWithdraw(call))
    /\ err # "none"

RECURSIVE Proceeds(_)
\* what the rows of frame d add to balance with prediction on
Proceeds(d) ==
    IF d = << >> THEN 0
    ELSE (IF d[1].inj THEN 0 - Price(price_func, d[1].date) * d[1].vol
                      ELSE Price(price_func, d[1].date) * d[1].vol)
         + Proceeds(Tail(d))

\* the ledger is what d, applied to a zero calendar, makes of the ledger at entry
AppliedExactly(d) ==
    /\ RunningTotal(d, calendar)
    /\ cost_inj = cost0[1] + inj_cost * VolumeBy(d, TRUE, Len(calendar))
    /\ cost_wit = cost0[2] + wit_cost * VolumeBy(d, FALSE, Len(calendar))
    /\ balance = IF predict THEN bal0 + Proceeds(d) ELSE bal0

\* C13: when the k-th operation in applied order is refused during process,
\* process stops with that operation's error, no later operation is applied,
\* and calendar, cost_inj, cost_wit and balance are what applying exactly the
\* first k-1 operations to a zero calendar gives: nothing is rolled back.
C13_PartialBatchStays ==
    /\ pc = "loop" => (err = "none" /\ AppliedExactly(SubSeq(df, 1, row - 1)))
    /\ ProcessAborted =>
          /\ row <= Len(df)
          /\ call.vol = df[row].vol /\ call.date = df[row].date
          /\ IsInject(call) <=> df[row].inj
          /\ AppliedExactly(SubSeq(df, 1, row - 1))

\* a batch refused at its third operation, the first two standing in the ledger
C13_Witness ==
    /\ ProcessAborted
    /\ row = 3
    /\ Len(df) > 3
    /\ \E i \in 1..Len(calendar) : calendar[i] # 0
    /\ cost_inj > cost0[1]

RECURSIVE DayVolume(_, _, _)
\* total volume of the rows of frame d with direction flag dated date
DayVolume(d, flag, date) ==
    IF d = << >> THEN 0
    ELSE (IF d[1].inj = flag /\ d[1].date = date THEN d[1].vol ELSE 0)
         + DayVolume(Tail(d), flag, date)

\* C14: after a successful process call the volume injected on any one day is
\* at most rate, and so is the volume withdrawn on any one day, also when
\* several operations of the batch share the day.
C14_DailyRate ==
    (ProcessReturned /\ err = "none") =>
        \A i \in 1..Len(df) :
            /\ DayVolume(df, TRUE, df[i].date) <= rate
            /\ DayVolume(df, FALSE, df[i].date) <= rate

\* the rows of frame m by date, rows of one date in the order they have in m
InDateOrder(m) ==
    LET n == Len(m)
        Rank(i) == Cardinality({j \in 1..n : \/ m[j].date < m[i].date
                                             \/ m[j].date = m[i].date /\ j <= i})
    IN  [k \in 1..n |-> m[CHOOSE i \in 1..n : Rank(i) = k]]

\* the rearrangements of frame d that list every injection before every withdrawal
MergedLists(d) ==
    { m \in { [i \in 1..Len(d) |-> d[p[i]]] : p \in Permutations(1..Len(d)) } :
        \A i, j \in 1..Len(d) : (i < j /\ m[j].inj) => m[i].inj }

\* the dates and volumes of the rows of m with direction flag, as process is given them
ListOf(m, flag) ==
    LET rows == SelectSeq(m, LAMBDA r : r.inj = flag)
    IN  [i \in 1..Len(rows) |-> [date |-> rows[i].date, vol |-> rows[i].vol]]

C16_EmptyCalendarRefused ==
    (call.op = "cost_overview" /\ processed /\ NDays(calendar) = 0)
        => err = "EmptyCalendar"

\* two results are the same number; nan is equal to nothing, itself included
SameNumber(a, b) == a[2] # 0 /\ b[2] # 0 /\ a = b

\* C17: net_gain computes total_cost = cost_inj + cost_wit +
\* cost_per_day_per_unit * avg_vol and reports balance - total_cost, without
\* looking at the prediction flag and without changing state; on one ledger
\* state that total_cost equals the total_cost of cost_overview iff n_days = 1
\* or cost_per_day_per_unit * avg_vol = 0.
C17_NetGain ==
    /\ [] /\ (call.op = "net_gain" /\ processed) => err = "none"
          /\ (call.op = "net_gain" /\ err = "none") =>
               LET n   == Cardinality({i \in 1..Len(calendar) : calendar[i] # 0})
                   sm  == SumSeq(calendar)
                   num == cost_per_day_per_unit[1]
                   den == cost_per_day_per_unit[2]
               IN  /\ report.gross = balance
                   /\ IF n = 0
                      THEN report.total_cost = NaN /\ report.net = NaN
                      ELSE /\ report.total_cost =
                                Rat((cost_inj + cost_wit) * den * n + num * sm, den * n)
                           /\ report.net =
                                Rat((balance - cost_inj - cost_wit) * den * n - num * sm,
                                    den * n)
                   /\ SameNumber(report.total_cost, TotalCost(CostStorage(calendar)))
                        <=> (n = 1 \/ (n # 0 /\ num * sm = 0))
    /\ [][ call'.op = "net_gain" => UNCHANGED ledger ]_vars

\* net_gain with prediction off on a calendar of several nonzero days: its
\* total is not the one cost_overview gives
C17_Witness ==
    /\ call.op = "net_gain"
    /\ err = "none"
    /\ ~predict
    /\ report.n_days >= 2
    /\ report.total_cost[2] # 0
    /\ report.total_cost # TotalCost(CostStorage(calendar))

\* C18 as stated: turning prediction mode off sets the flag to off, clears the
\* stored price function, and leaves balance, cost_inj, cost_wit and the
\* calendar unchanged; turning it on again leaves the balance where it was.
C18_PredictionOffClears ==
    [][ /\ call'.op = "prediction_off" =>
              /\ ~predict'
              /\ price_func' = "unset"
              /\ UNCHANGED << balance, cost_inj, cost_wit, calendar >>
        /\ call'.op = "prediction_on" => balance' = balance ]_vars

\* C18: turning prediction mode off sets the flag to off and leaves the stored
\* price function, balance, cost_inj, cost_wit and the calendar unchanged;
\* turning it on again leaves the balance where it was.
C18_PredictionOffKeeps ==
    [][ /\ call'.op = "prediction_off" =>
              /\ ~predict'
              /\ UNCHANGED << price_func, balance, cost_inj, cost_wit, calendar >>
        /\ call'.op = "prediction_on" => balance' = balance ]_vars

\* prediction turned off on a ledger with a balance booked under a price function
C18_Witness ==
    /\ call.op = "prediction_off"
    /\ ~predict
    /\ price_func \in PriceFuncs
    /\ balance # 0
    /\ cost_inj > 0

\* process has built its frame and calendar and applied no row yet
ProcessEntered == call.op = "process" /\ pc = "loop" /\ row = 1

\* the latest and the earliest date of frame d
Latest(d) == CHOOSE x \in {d[i].date : i \in 1..Len(d)} : \A i \in 1..Len(d) : d[i].date <= x

Earliest(d) == CHOOSE x \in {d[i].date : i \in 1..Len(d)} : \A i \in 1..Len(d) : x <= d[i].date

\* C19: each process call with a non-empty batch builds a fresh all-zero
\* calendar of exactly (latest date - earliest date) + 2 slots indexed from 0,
\* so every operation of the batch maps to a slot in 0..(latest - earliest)
\* and the trailing slot (latest - earliest) + 1 exists.
C19_FreshCalendar ==
    /\ ProcessEntered =>
          /\ Len(calendar) = (Latest(df) - Earliest(df)) + 2
          /\ \A i \in 1..Len(calendar) : calendar[i] = 0
          /\ \A i \in 1..Len(df) :
                /\ DateToInt(df[i].date) \in 0..(Latest(df) - Earliest(df))
                /\ HasSlot(calendar, DateToInt(df[i].date))
          /\ HasSlot(calendar, (Latest(df) - Earliest(df)) + 1)
    /\ df # << >> => err # "IndexError"

\* a second batch, starting on day 5, entered on a ledger that already booked volume
C19_Witness ==
    /\ ProcessEntered
    /\ sum_inj > 0
    /\ first_operation = 5
    /\ last_operation = 10
    /\ Len(calendar) = 7

\* C20: during process, when an operation dated at slot t is checked, every
\* slot from t on holds the volume of slot t, so the check of slot t speaks
\* for all the slots the operation changes; throughout process every slot
\* stays within [0, max_vol].
C20_TailIsFlat ==
    /\ (pc = "loop" /\ row <= Len(df) /\ HasSlot(calendar, DateToInt(df[row].date))) =>
          \A i \in 1..Len(calendar) :
              i > DateToInt(df[row].date) => calendar[i] = calendar[DateToInt(df[row].date) + 1]
    /\ (pc = "loop" \/ df # << >>) =>
          \A i \in 1..Len(calendar) : 0 <= calendar[i] /\ calendar[i] <= max_vol

\* the last row of a batch about to be checked against a calendar that the
\* earlier rows filled up to some day and emptied from then on
C20_Witness ==
    /\ pc = "loop"
    /\ row = Len(df)
    /\ row > 2
    /\ calendar[1] > 0
    /\ DateToInt(df[row].date) > 0
    /\ calendar[Len(calendar)] = 0

====
